---- MODULE Spec2Model ----
(***************************************************************************)
(* Model of scraper.py, the static RSS generator for epiotrkow.pl:         *)
(*   fetch_items            listing pages -> items -> dedup -> details     *)
(*   fetch_article_details  the extraction cascade for one article         *)
(*   build_rss / __main__   rendering and the write of feed.xml            *)
(*                                                                         *)
(* Representation.                                                         *)
(*  - A text is a run-length encoded string: a sequence of runs            *)
(*    [c |-> class, n |-> count] with classes "w" (a non-blank character   *)
(*    that is not terminal punctuation), "s" (a blank), "p" (one of . ! ?) *)
(*    and "e" (the ellipsis U+2026).  Texts are kept canonical: no empty   *)
(*    run, no two adjacent runs of one class.  Python's None and ""        *)
(*    are both the empty text << >> (the code tests them with `not`).      *)
(*  - An optional value is << >> (None) or << v >>.                        *)
(*  - A naive datetime is its number of hours since a fixed midnight.      *)
(*  - Texts are taken entity-free, so html.unescape leaves them alone.     *)
(***************************************************************************)
EXTENDS Integers, Sequences, FiniteSets, TLC

\* ------------------------------------------------------------------------
\* Program constants
\* ------------------------------------------------------------------------
MAX_ITEMS == 500
DETAIL_LIMIT == 500
LEAD_MAX_CHARS == 1000
LEAD_MIN_GOOD == 250
\* build_lead_from_paras skips paragraphs shorter than this
MIN_PARA_CHARS == 30
\* extract_from_jsonld accepts a description/body of at least this length
MIN_JSONLD_CHARS == 40
\* trafilatura_lead returns a text of at least this length
MIN_TRAF_CHARS == 120
\* the final cleaning drops a lead shorter than this without end punctuation
MIN_CLEAN_CHARS == 80
\* parse_polish_date builds datetime(year, month, day, 12, 0, 0)
NOON == 12

SITE == "https://epiotrkow.pl"

\* ------------------------------------------------------------------------
\* Bounds of the model
\* ------------------------------------------------------------------------
\* listing pages of one run (SOURCE_URLS holds 20)
NumPages == 2
\* AMP candidates tried per article (amp_hrefs holds 4 or 5)
NumAmp == 2
\* <script type="application/ld+json"> tags per page
MaxTags == 2

None == << >>
Some(v) == << v >>

\* ------------------------------------------------------------------------
\* Texts (str)
\* ------------------------------------------------------------------------
Run(c, n) == [c |-> c, n |-> n]
W(n) == << Run("w", n) >>
S(n) == << Run("s", n) >>
P == << Run("p", 1) >>

\* len(t)
RECURSIVE TLen(_)
TLen(t) == IF t = << >> THEN 0 ELSE Head(t).n + TLen(Tail(t))

\* canonical form: empty runs dropped, adjacent runs of one class merged
RECURSIVE Norm(_)
Norm(t) ==
  IF t = << >> THEN << >>
  ELSE IF Head(t).n = 0 THEN Norm(Tail(t))
  ELSE LET r == Norm(Tail(t)) IN
       IF r # << >> /\ Head(r).c = Head(t).c
       THEN << Run(Head(t).c, Head(t).n + Head(r).n) >> \o Tail(r)
       ELSE << Head(t) >> \o r

\* a + b
Concat(a, b) == Norm(a \o b)

\* t[:k]
RECURSIVE Take(_, _)
Take(t, k) ==
  IF t = << >> \/ k <= 0 THEN << >>
  ELSE IF Head(t).n <= k THEN << Head(t) >> \o Take(Tail(t), k - Head(t).n)
  ELSE << Run(Head(t).c, k) >>

\* " " in t
HasSpace(t) == \E i \in 1..Len(t) : t[i].c = "s"

\* t.rsplit(" ", 1)[0], for a t that holds a blank: all before the last blank
BeforeLastSpace(t) ==
  LET i == CHOOSE k \in 1..Len(t) :
             t[k].c = "s" /\ \A m \in (k+1)..Len(t) : t[m].c # "s"
  IN  Norm(SubSeq(t, 1, i - 1) \o << Run("s", t[i].n - 1) >>)

\* t.rstrip()
RECURSIVE RStrip(_)
RStrip(t) ==
  IF t = << >> THEN << >>
  ELSE IF t[Len(t)].c = "s" THEN RStrip(SubSeq(t, 1, Len(t) - 1))
  ELSE t

\* t.lstrip()
RECURSIVE LStrip(_)
LStrip(t) ==
  IF t = << >> THEN << >>
  ELSE IF Head(t).c = "s" THEN LStrip(Tail(t))
  ELSE t

\* " ".join(t.split()): ends stripped, every run of blanks becomes one blank
Collapse(t) ==
  LET u == RStrip(LStrip(t)) IN
  [i \in 1..Len(u) |-> IF u[i].c = "s" THEN Run("s", 1) ELSE u[i]]

\* " ".join(chunks)
RECURSIVE JoinSpace(_)
JoinSpace(chunks) ==
  IF chunks = << >> THEN << >>
  ELSE IF Len(chunks) = 1 THEN Head(chunks)
  ELSE Concat(Concat(Head(chunks), S(1)), JoinSpace(Tail(chunks)))

Ellipsis == << Run("e", 1) >>

\* re.search(r"[.!?...]$", t)
EndsWithTerminal(t) == t # << >> /\ t[Len(t)].c \in {"p", "e"}

EndsWithEllipsis(t) == t # << >> /\ t[Len(t)].c = "e"

\* the cut of build_lead_from_paras and trafilatura_lead, for len(t) > max_chars
CutToBudget(t, max_chars) ==
  LET cut  == Take(t, max_chars)
      cut2 == IF HasSpace(cut) THEN BeforeLastSpace(cut) ELSE cut
  IN  Concat(RStrip(cut2), Ellipsis)

\* ------------------------------------------------------------------------
\* Dates
\* ------------------------------------------------------------------------
\* A source date value: wall |-> the clock reading it spells, tz |-> "Z",
\* "off" (a numeric offset of `off` hours), "naive" (no annotation) or "bad"
\* (not an ISO string: fromisoformat raises, or the value is no string).
DateSrc(wall, tz, off) == [wall |-> wall, tz |-> tz, off |-> off]

\* dt.strftime("%a, %d %b %Y %H:%M:%S +0000"): the clock reading of the naive
\* datetime, labelled +0000 whatever it was
to_rfc2822(dt) == [wall |-> dt, zone |-> "+0000"]

\* the try block shared by extract_from_jsonld and the meta branch: an
\* optional pubDate.  localOff is the UTC offset of the machine's local zone,
\* which astimezone(tz=None) converts to.
IsoToRfc(dp, localOff) ==
  IF dp.tz = "bad" THEN None
  ELSE IF dp.tz = "Z" THEN Some(to_rfc2822(dp.wall + localOff))
  ELSE Some(to_rfc2822(dp.wall))

\* parse_polish_date: an optional day number (None: no match, unknown month
\* name or an impossible date) to noon of that day
parse_polish_date(day) ==
  IF day = None THEN None ELSE Some(to_rfc2822(24 * day[1] + NOON))

\* ------------------------------------------------------------------------
\* Strategies of the cascade
\* ------------------------------------------------------------------------
\* A JSON-LD object: art |-> its @type names an Article, dp |-> optional
\* datePublished/dateCreated, txt |-> articleBody or description (or << >>).
Obj(art, dp, txt) == [art |-> art, dp |-> dp, txt |-> txt]

\* the loop over one tag's candidates.  acc.src is a ghost: the source value
\* acc.pub was parsed from.
RECURSIVE ScanObjs(_, _, _)
ScanObjs(objs, acc, localOff) ==
  IF objs = << >> THEN acc
  ELSE LET obj == Head(objs) IN
    IF ~obj.art THEN ScanObjs(Tail(objs), acc, localOff)
    ELSE
      LET parsed == IF obj.dp # None /\ acc.pub = None
                    THEN IsoToRfc(obj.dp[1], localOff) ELSE None
          clean  == Collapse(obj.txt)
          acc2   == [pub  |-> IF parsed # None THEN parsed ELSE acc.pub,
                     src  |-> IF parsed # None THEN obj.dp ELSE acc.src,
                     lead |-> IF obj.txt # << >> /\ acc.lead = << >>
                                 /\ TLen(clean) >= MIN_JSONLD_CHARS
                              THEN clean ELSE acc.lead]
      IN ScanObjs(Tail(objs), acc2, localOff)

\* the loop over the script tags, left at the first tag that gave a date or
\* a lead.  A tag is the sequence of its candidate objects (<< >> for a tag
\* that is empty or does not parse).
RECURSIVE ScanTags(_, _, _)
ScanTags(tags, acc, localOff) ==
  IF tags = << >> THEN acc
  ELSE LET acc2 == ScanObjs(Head(tags), acc, localOff) IN
       IF acc2.pub # None \/ acc2.lead # << >> THEN acc2
       ELSE ScanTags(Tail(tags), acc2, localOff)

extract_from_jsonld(tags, localOff) ==
  ScanTags(tags, [pub |-> None, src |-> None, lead |-> << >>], localOff)

\* the chunk loop of build_lead_from_paras
RECURSIVE Chunks(_, _, _, _)
Chunks(paras, chunks, total, max_chars) ==
  IF paras = << >> THEN chunks
  ELSE LET t == Head(paras) IN
    IF t = << >> \/ TLen(t) < MIN_PARA_CHARS
    THEN Chunks(Tail(paras), chunks, total, max_chars)
    ELSE IF total + TLen(t) + 1 >= max_chars THEN Append(chunks, t)
    ELSE Chunks(Tail(paras), Append(chunks, t), total + TLen(t) + 1, max_chars)

\* paras: the texts of the paragraphs the first matching selector found
build_lead_from_paras(paras, max_chars) ==
  LET chunks == Chunks(paras, << >>, 0, max_chars)
      lead   == JoinSpace(chunks)
  IN  IF chunks = << >> THEN << >>
      ELSE IF TLen(lead) > max_chars THEN CutToBudget(lead, max_chars)
      ELSE lead

\* traf: ok |-> the download and the extraction raised nothing,
\*       text |-> the extracted text (<< >>: nothing downloaded or extracted)
trafilatura_lead(traf, max_chars) ==
  IF ~traf.ok \/ traf.text = << >> THEN << >>
  ELSE LET text == Collapse(traf.text)
           out  == IF TLen(text) > max_chars
                   THEN CutToBudget(text, max_chars) ELSE text
       IN  IF TLen(out) >= MIN_TRAF_CHARS THEN out ELSE << >>

\* `not lead or len(lead) < LEAD_MIN_GOOD`
LeadWanted(lead) == lead = << >> \/ TLen(lead) < LEAD_MIN_GOOD

\* a lead a later strategy may put in place of the held one
GoodLead(l) == l # << >> /\ TLen(l) >= LEAD_MIN_GOOD

\* The state of fetch_article_details between its steps: pub |-> pub_rfc,
\* lead |-> lead, src |-> ghost, the source value pub was parsed from.
\* 1) JSON-LD of the article page
StepJsonLd(st, soup, localOff) ==
  LET j == extract_from_jsonld(soup.tags, localOff) IN
  [pub  |-> IF j.pub # None THEN j.pub ELSE st.pub,
   src  |-> IF j.pub # None THEN j.src ELSE st.src,
   lead |-> IF j.lead # << >> THEN j.lead ELSE st.lead]

\* 2) the guard that leaves the AMP loop
AmpBreak(st) == st.lead # << >> /\ st.pub # None /\ TLen(st.lead) >= LEAD_MIN_GOOD

\* 2) one AMP candidate: amp.ok |-> the fetch succeeded
AmpIter(st, amp, localOff) ==
  IF ~amp.ok THEN st
  ELSE
    LET a      == extract_from_jsonld(amp.tags, localOff)
        a_lead == build_lead_from_paras(amp.paras, LEAD_MAX_CHARS)
        newPub == st.pub = None /\ a.pub # None
    IN [pub  |-> IF newPub THEN a.pub ELSE st.pub,
        src  |-> IF newPub THEN a.src ELSE st.src,
        lead |-> IF LeadWanted(st.lead) /\ GoodLead(a_lead)
                 THEN a_lead ELSE st.lead]

\* StepMeta without its guard `if not pub_rfc`: the meta date is written over
\* the date an earlier strategy set
StepMetaOverwrite(st, soup, localOff) ==
  LET m == IF soup.meta # None THEN IsoToRfc(soup.meta[1], localOff) ELSE None
  IN IF m # None THEN [st EXCEPT !.pub = m, !.src = soup.meta] ELSE st

\* 3) meta tags, then the in-page date element
StepMeta(st, soup, localOff) ==
  IF st.pub # None THEN st
  ELSE
    LET m == IF soup.meta # None THEN IsoToRfc(soup.meta[1], localOff) ELSE None
    IN IF m # None THEN [st EXCEPT !.pub = m, !.src = soup.meta]
       ELSE IF soup.inpage.el
            THEN [st EXCEPT !.pub = parse_polish_date(soup.inpage.day)]
            ELSE st

\* 3) the paragraphs of the article page
StepParas(st, soup) ==
  LET built == build_lead_from_paras(soup.paras, LEAD_MAX_CHARS) IN
  IF LeadWanted(st.lead) /\ GoodLead(built)
  THEN [st EXCEPT !.lead = built] ELSE st

\* 4) the gallery variant: gal.has |-> try_gallery_variant gave a URL,
\*    gal.ok |-> its fetch succeeded
StepGallery(st, gal, localOff) ==
  IF ~LeadWanted(st.lead) \/ ~gal.has \/ ~gal.ok THEN st
  ELSE
    LET g      == extract_from_jsonld(gal.tags, localOff)
        g_lead == build_lead_from_paras(gal.paras, LEAD_MAX_CHARS)
        newPub == st.pub = None /\ g.pub # None
    IN [pub  |-> IF newPub THEN g.pub ELSE st.pub,
        src  |-> IF newPub THEN g.src ELSE st.src,
        lead |-> IF GoodLead(g_lead) THEN g_lead ELSE st.lead]

\* 5) trafilatura
StepTraf(st, traf) ==
  IF ~LeadWanted(st.lead) THEN st
  ELSE LET t_lead == trafilatura_lead(traf, LEAD_MAX_CHARS) IN
       IF GoodLead(t_lead) THEN [st EXCEPT !.lead = t_lead] ELSE st

\* the final cleaning
StepClean(st) ==
  IF st.lead = << >> THEN st
  ELSE LET l == Collapse(st.lead) IN
       IF TLen(l) < MIN_CLEAN_CHARS /\ ~EndsWithTerminal(l)
       THEN [st EXCEPT !.lead = << >>]
       ELSE [st EXCEPT !.lead = l]

\* the AMP loop over amp_hrefs
RECURSIVE AmpLoop(_, _, _)
AmpLoop(st, amps, localOff) ==
  IF amps = << >> \/ AmpBreak(st) THEN st
  ELSE AmpLoop(AmpIter(st, Head(amps), localOff), Tail(amps), localOff)

NoDetails == [pub |-> None, src |-> None, lead |-> << >>]

\* fetch_article_details as a function of what the network returns:
\* in.ok |-> the article page was fetched, in.soup |-> that page,
\* in.amps, in.gal, in.traf |-> the sub-fetches
fetch_article_details(in, localOff) ==
  IF ~in.ok THEN NoDetails
  ELSE StepClean(
         StepTraf(
           StepGallery(
             StepParas(
               StepMeta(
                 AmpLoop(StepJsonLd(NoDetails, in.soup, localOff),
                         in.amps, localOff),
                 in.soup, localOff),
               in.soup),
             in.gal, localOff),
           in.traf))

\* ------------------------------------------------------------------------
\* Listing pages: anchors, links, items
\* ------------------------------------------------------------------------
\* An href that starts with "/" is the sequence of its path segments:
\* "/news/a,1" is << "news", "a,1" >>, "/news/" is << "news", "" >>.
\* The segments that end in a comma and digits:
ID_SEGMENTS == { "a,1", "b,2", ",3" }
\* of these, the one with nothing before the comma
BARE_ID == ",3"

\* the attribute selector a[href^='/news/']
StartsWithNews(href) == Len(href) >= 2 /\ href[1] = "news"

\* ID_LINK.match(href), ID_LINK = ^/news/.+,\d+$ : after "/news/" at least
\* one character, then a comma and digits up to the end
ID_LINK(href) ==
  /\ StartsWithNews(href)
  /\ href[Len(href)] \in ID_SEGMENTS
  /\ ~(Len(href) = 2 /\ href[2] = BARE_ID)

\* urljoin's path resolution for a path that starts with "/": "." is dropped,
\* ".." takes the segment before it away, and a path that ends in "." or ".."
\* ends in "/"
RECURSIVE Resolve(_, _, _)
Resolve(segs, i, out) ==
  IF i > Len(segs)
  THEN IF segs # << >> /\ segs[Len(segs)] \in {".", ".."} THEN Append(out, "") ELSE out
  ELSE IF segs[i] = ".." THEN
         Resolve(segs, i + 1, IF out = << >> THEN out ELSE SubSeq(out, 1, Len(out) - 1))
  ELSE IF segs[i] = "." THEN Resolve(segs, i + 1, out)
  ELSE Resolve(segs, i + 1, Append(out, segs[i]))

\* urljoin(SITE, href) for an href that starts with "/"
urljoin(site, href) == [site |-> site, path |-> Resolve(href, 1, << >>)]

\* An image source: << >> (no src attribute) or << [name, ext] >>, ext "data"
\* standing for a data: URI.
\* find_image_url: a.imgs are the src (data-src or src) of the <img> found
\* in the anchor, in each of its four ancestors and after it, in that order
RECURSIVE find_image_url(_)
find_image_url(imgs) ==
  IF imgs = << >> THEN None
  ELSE IF Head(imgs) # None /\ Head(imgs)[1].ext # "data"
       THEN Some([site |-> SITE, img |-> Head(imgs)[1]])
       ELSE find_image_url(Tail(imgs))

guess_mime(url) ==
  IF url = None THEN "image/*"
  ELSE LET ext == url[1].img.ext IN
       IF ext = "webp" THEN "image/webp"
       ELSE IF ext = "png" THEN "image/png"
       ELSE IF ext \in {"jpg", "jpeg"} THEN "image/jpeg"
       ELSE "image/*"

\* the title chain: .tn-title in the anchor, the anchor's text, the next
\* .tn-title, the alt of the anchor's image, "Bez tytulu"
TitleOf(a) ==
  IF a.tnTitle # "" THEN a.tnTitle
  ELSE IF a.text # "" THEN a.text
  ELSE IF a.nextTitle # "" THEN a.nextTitle
  ELSE IF a.alt # "" THEN a.alt
  ELSE "Bez tytulu"

\* hashlib.sha1(link).hexdigest(): a function of the link, taken injective
sha1(link) == [sha1 |-> link]

\* soup.select(sel) for the three ARTICLE_LINK_SELECTORS, in document order;
\* a.within are the classes of the elements the anchor lies in
SelectAnchors(doc, cls) ==
  SelectSeq(doc, LAMBDA a : StartsWithNews(a.href) /\ (cls = "" \/ cls \in a.within))

AllAnchors(doc) ==
  SelectAnchors(doc, "tn-img") \o SelectAnchors(doc, "bg-white") \o SelectAnchors(doc, "")

\* the loop that keeps the first anchor of every href
RECURSIVE CleanAnchors(_, _)
CleanAnchors(anchors, seen_href) ==
  IF anchors = << >> THEN << >>
  ELSE LET a == Head(anchors) IN
       IF a.href = << >> \/ a.href \in seen_href
       THEN CleanAnchors(Tail(anchors), seen_href)
       ELSE << a >> \o CleanAnchors(Tail(anchors), seen_href \cup {a.href})

ItemOf(a) ==
  LET link    == urljoin(SITE, a.href)
      img_url == find_image_url(a.imgs)
  IN [title |-> TitleOf(a), link |-> link, guid |-> sha1(link),
      image |-> img_url,
      mime  |-> IF img_url # None THEN guess_mime(img_url) ELSE "",
      pubDate |-> None, lead |-> << >>]

\* the items one fetched listing page appends to items
RECURSIVE ItemsOfClean(_)
ItemsOfClean(clean) ==
  IF clean = << >> THEN << >>
  ELSE IF ID_LINK(Head(clean).href)
       THEN << ItemOf(Head(clean)) >> \o ItemsOfClean(Tail(clean))
       ELSE ItemsOfClean(Tail(clean))

PageItems(doc) == ItemsOfClean(CleanAnchors(AllAnchors(doc), {}))

LinksOf(its) == [i \in 1..Len(its) |-> its[i].link]

\* no value stands twice in q
NoRepeat(q) == \A i, j \in 1..Len(q) : q[i] = q[j] => i = j

\* ------------------------------------------------------------------------
\* State
\* ------------------------------------------------------------------------
VARIABLES
  \* the run (__main__, fetch_items, build_rss)
  pc,        \* "listing", "dedup", "details", "build", "write", "done", "idle"
  pageIdx,   \* how many of SOURCE_URLS the listing loop has gone through
  items,     \* fetch_items: items
  unique,    \* fetch_items: unique
  idx,       \* how many items of unique the detail loop has gone through
  result,    \* __main__: items, the list fetch_items returned
  rss,       \* __main__: rss, the <item> blocks build_rss rendered, in order
  feedFile,  \* feed.xml: written |-> it was written, body |-> its <item> blocks
  failed,    \* ghost: the listing pages and the indexes into unique whose
             \* fetch (pages, arts) or sub-fetch (subs) failed
  contrib,   \* ghost: how many items each listing page appended
  processed, \* ghost: the article anchors of all fetched pages, as items, in
             \* the order the listing loop went through them
  \* one call of fetch_article_details
  apc,       \* "start", "jsonld", "amp", "meta", "paras", "gallery", "traf",
             \* "clean", "done", "idle"
  pub_rfc,   \* fetch_article_details: pub_rfc
  lead,      \* fetch_article_details: lead
  ampIdx,    \* how many of amp_hrefs the AMP loop has gone through
  tzOffset,  \* UTC offset, in hours, of the local zone of the machine
  hist,      \* ghost: src |-> the source value pub_rfc was parsed from;
             \* jDate, aDate, mDate, iDate, gDate |-> the date the JSON-LD of
             \* the page, the first AMP page with one, the meta tag, the
             \* in-page element and the gallery page carried; cut |-> the
             \* lead was cut to the budget; short, good |-> some strategy
             \* yielded a valid lead below, a lead of at least, LEAD_MIN_GOOD
  \* the link extraction of one listing page
  lpc,       \* "parse", "extracted", "again", "idle"
  page,      \* the anchors of the page, in document order
  links,     \* the links of the items the page gave
  links2     \* the same from a second pass over the same page

pipeVars == << pc, pageIdx, items, unique, idx, result, rss, feedFile, failed,
              contrib, processed >>
artVars  == << apc, pub_rfc, lead, ampIdx, tzOffset, hist >>
linkVars == << lpc, page, links, links2 >>
vars     == << pipeVars, artVars, linkVars >>

PipeIdle ==
  /\ pc = "idle" /\ pageIdx = 0 /\ items = << >> /\ unique = << >> /\ idx = 0
  /\ result = << >> /\ rss = << >>
  /\ feedFile = [written |-> FALSE, body |-> << >>]
  /\ failed = [pages |-> {}, arts |-> {}, subs |-> {}]
  /\ contrib = << >> /\ processed = << >>

NoHist ==
  [src |-> None, jDate |-> None, aDate |-> None, mDate |-> None,
   iDate |-> None, gDate |-> None, cut |-> FALSE, short |-> FALSE,
   good |-> FALSE]

ArtIdle ==
  /\ apc = "idle" /\ pub_rfc = None /\ lead = << >> /\ ampIdx = 0
  /\ tzOffset = 0 /\ hist = NoHist

LinkIdle ==
  /\ lpc = "idle" /\ page = << >> /\ links = << >> /\ links2 = << >>

\* ------------------------------------------------------------------------
\* Inputs of the cascade
\* ------------------------------------------------------------------------
\* 41 characters, no end punctuation
TShort == W(20) \o S(1) \o W(20)
\* 50 characters ending in a full stop
TShortP == W(20) \o S(1) \o W(28) \o P
\* 200 characters
TMid == W(100) \o S(1) \o W(98) \o P
\* 400 characters
TGood == W(200) \o S(1) \o W(198) \o P
\* 304 characters with a run of three blanks inside
TRaw == W(150) \o S(3) \o W(150) \o P
\* 1500 characters
TLong == W(700) \o S(1) \o W(799)
\* 1200 characters without a blank
TLongNoSp == W(1200)

DateZ     == DateSrc(10, "Z", 0)
DateOff   == DateSrc(12, "off", 2)
DateNaive == DateSrc(9, "naive", 0)
DateBad   == DateSrc(0, "bad", 0)

LOCAL_OFFSETS == {0, 2}

J_OBJS ==
  { Obj(TRUE, Some(DateZ), << >>),
    Obj(TRUE, None, TShortP),
    Obj(TRUE, Some(DateOff), TGood),
    Obj(FALSE, Some(DateNaive), TGood),
    Obj(TRUE, Some(DateBad), TLong),
    Obj(TRUE, Some(DateNaive), TShort) }

\* a tag holds one object, or nothing that parses
TAGS == { << o >> : o \in J_OBJS } \cup { << >> }

RECURSIVE SeqsUpTo(_, _)
SeqsUpTo(set, n) ==
  IF n = 0 THEN { << >> }
  ELSE LET shorter == SeqsUpTo(set, n - 1) IN
       shorter \cup { Append(q, x) : q \in { r \in shorter : Len(r) = n - 1 },
                                     x \in set }

JSONLD_DOCS == SeqsUpTo(TAGS, MaxTags)

PARA_LISTS ==
  { << >>, << W(10) >>, << TMid >>, << W(10), TGood >>, << TRaw >>,
    << TMid, TGood, TGood, TGood >>, << TLong >>, << TLongNoSp >> }

META_DATES == { None, Some(DateZ), Some(DateOff), Some(DateNaive), Some(DateBad) }

INPAGE_DATES ==
  { [el |-> FALSE, day |-> None], [el |-> TRUE, day |-> None],
    [el |-> TRUE, day |-> Some(1)] }

SUB_TAGS == { << >>, << << Obj(TRUE, Some(DateNaive), << >>) >> >>,
              << << Obj(TRUE, Some(DateOff), TGood) >> >> }

SUB_PARAS == { << >>, << TMid >>, << TGood >>, << TLong >> }

AMP_PAGES ==
  { [ok |-> FALSE, tags |-> << >>, paras |-> << >>] } \cup
  { [ok |-> TRUE, tags |-> t, paras |-> p] : t \in SUB_TAGS, p \in SUB_PARAS }

GALLERY_PAGES ==
  { [has |-> FALSE, ok |-> FALSE, tags |-> << >>, paras |-> << >>],
    [has |-> TRUE, ok |-> FALSE, tags |-> << >>, paras |-> << >>] } \cup
  { [has |-> TRUE, ok |-> TRUE, tags |-> t, paras |-> p] :
      t \in SUB_TAGS, p \in SUB_PARAS }

TRAF_RESULTS ==
  { [ok |-> FALSE, text |-> << >>], [ok |-> TRUE, text |-> << >>],
    [ok |-> TRUE, text |-> TShortP], [ok |-> TRUE, text |-> TMid],
    [ok |-> TRUE, text |-> TRaw], [ok |-> TRUE, text |-> TLong] }

\* ------------------------------------------------------------------------
\* Ghosts of the cascade
\* ------------------------------------------------------------------------
\* the date of the first Article object of the page, in any tag, whose
\* datePublished parses
RECURSIVE PageJsonDate(_, _)
PageJsonDate(objs, localOff) ==
  IF objs = << >> THEN None
  ELSE LET o == Head(objs)
           d == IF o.art /\ o.dp # None THEN IsoToRfc(o.dp[1], localOff) ELSE None
       IN IF d # None THEN d ELSE PageJsonDate(Tail(objs), localOff)

RECURSIVE Flatten(_)
Flatten(tags) == IF tags = << >> THEN << >> ELSE Head(tags) \o Flatten(Tail(tags))

\* build_lead_from_paras had to cut
ParasCut(paras) ==
  TLen(JoinSpace(Chunks(paras, << >>, 0, LEAD_MAX_CHARS))) > LEAD_MAX_CHARS

\* trafilatura_lead had to cut
TrafCut(traf) == TLen(Collapse(traf.text)) > LEAD_MAX_CHARS

\* a lead the final cleaning lets through
Valid(l) ==
  l # << >> /\ (TLen(Collapse(l)) >= MIN_CLEAN_CHARS \/ EndsWithTerminal(Collapse(l)))

\* hist after a strategy that was asked for a lead gave candidate cand
\* (cut: it was cut to the budget) and the cascade went from st to r
Noted(h, st, r, cand, cut) ==
  [h EXCEPT !.src   = r.src,
            !.cut   = IF r.lead # st.lead THEN cut ELSE h.cut,
            !.short = h.short \/ (Valid(cand) /\ ~GoodLead(cand)),
            !.good  = h.good \/ GoodLead(cand)]

St == [pub |-> pub_rfc, src |-> hist.src, lead |-> lead]

\* ------------------------------------------------------------------------
\* fetch_article_details, step by step
\* ------------------------------------------------------------------------
\* 0) the article page: on a failed fetch the function returns (None, None)
FetchArticle ==
  /\ apc = "start"
  /\ \E ok \in BOOLEAN : apc' = IF ok THEN "jsonld" ELSE "done"
  /\ UNCHANGED << pub_rfc, lead, ampIdx, tzOffset, hist, pipeVars, linkVars >>

JsonLd ==
  /\ apc = "jsonld"
  /\ \E tags \in JSONLD_DOCS :
       LET r == StepJsonLd(St, [tags |-> tags], tzOffset)
           j == extract_from_jsonld(tags, tzOffset)
       IN /\ pub_rfc' = r.pub
          /\ lead' = r.lead
          /\ hist' = [Noted(hist, St, r, j.lead, FALSE) EXCEPT
                        !.jDate = PageJsonDate(Flatten(tags), tzOffset)]
  /\ apc' = "amp"
  /\ UNCHANGED << ampIdx, tzOffset, pipeVars, linkVars >>

Amp ==
  /\ apc = "amp" /\ ampIdx < NumAmp /\ ~AmpBreak(St)
  /\ \E amp \in AMP_PAGES :
       LET r    == AmpIter(St, amp, tzOffset)
           cand == IF amp.ok /\ LeadWanted(lead)
                   THEN build_lead_from_paras(amp.paras, LEAD_MAX_CHARS)
                   ELSE << >>
       IN /\ pub_rfc' = r.pub
          /\ lead' = r.lead
          /\ hist' = [Noted(hist, St, r, cand, ParasCut(amp.paras)) EXCEPT
                        !.aDate = IF hist.aDate = None /\ amp.ok
                                  THEN extract_from_jsonld(amp.tags, tzOffset).pub
                                  ELSE @]
  /\ ampIdx' = ampIdx + 1
  /\ UNCHANGED << apc, tzOffset, pipeVars, linkVars >>

AmpEnd ==
  /\ apc = "amp" /\ (ampIdx >= NumAmp \/ AmpBreak(St))
  /\ apc' = "meta"
  /\ UNCHANGED << pub_rfc, lead, ampIdx, tzOffset, hist, pipeVars, linkVars >>

Meta ==
  /\ apc = "meta"
  /\ \E meta \in META_DATES, inpage \in INPAGE_DATES :
       LET r == StepMeta(St, [meta |-> meta, inpage |-> inpage], tzOffset)
       IN /\ pub_rfc' = r.pub
          /\ hist' = [hist EXCEPT
                        !.src = r.src,
                        !.mDate = IF meta # None
                                  THEN IsoToRfc(meta[1], tzOffset) ELSE None,
                        !.iDate = IF inpage.el
                                  THEN parse_polish_date(inpage.day) ELSE None]
  /\ apc' = "paras"
  /\ UNCHANGED << lead, ampIdx, tzOffset, pipeVars, linkVars >>

Paras ==
  /\ apc = "paras"
  /\ \E paras \in PARA_LISTS :
       LET r    == StepParas(St, [paras |-> paras])
           cand == IF LeadWanted(lead)
                   THEN build_lead_from_paras(paras, LEAD_MAX_CHARS) ELSE << >>
       IN /\ lead' = r.lead
          /\ hist' = Noted(hist, St, r, cand, ParasCut(paras))
  /\ apc' = "gallery"
  /\ UNCHANGED << pub_rfc, ampIdx, tzOffset, pipeVars, linkVars >>

Gallery ==
  /\ apc = "gallery"
  /\ \E gal \in GALLERY_PAGES :
       LET r    == StepGallery(St, gal, tzOffset)
           cand == IF LeadWanted(lead) /\ gal.has /\ gal.ok
                   THEN build_lead_from_paras(gal.paras, LEAD_MAX_CHARS)
                   ELSE << >>
       IN /\ pub_rfc' = r.pub
          /\ lead' = r.lead
          /\ hist' = [Noted(hist, St, r, cand, ParasCut(gal.paras)) EXCEPT
                        !.gDate = IF LeadWanted(lead) /\ gal.has /\ gal.ok
                                  THEN extract_from_jsonld(gal.tags, tzOffset).pub
                                  ELSE None]
  /\ apc' = "traf"
  /\ UNCHANGED << ampIdx, tzOffset, pipeVars, linkVars >>

Traf ==
  /\ apc = "traf"
  /\ \E traf \in TRAF_RESULTS :
       LET r    == StepTraf(St, traf)
           cand == IF LeadWanted(lead)
                   THEN trafilatura_lead(traf, LEAD_MAX_CHARS) ELSE << >>
       IN /\ lead' = r.lead
          /\ hist' = Noted(hist, St, r, cand, TrafCut(traf))
  /\ apc' = "clean"
  /\ UNCHANGED << pub_rfc, ampIdx, tzOffset, pipeVars, linkVars >>

Clean ==
  /\ apc = "clean"
  /\ lead' = StepClean(St).lead
  /\ apc' = "done"
  /\ UNCHANGED << pub_rfc, ampIdx, tzOffset, hist, pipeVars, linkVars >>

InitArticle ==
  /\ PipeIdle /\ LinkIdle
  /\ apc = "start" /\ pub_rfc = None /\ lead = << >> /\ ampIdx = 0
  /\ tzOffset \in LOCAL_OFFSETS
  /\ hist = NoHist

NextArticle ==
  \/ FetchArticle \/ JsonLd \/ Amp \/ AmpEnd \/ Meta \/ Paras \/ Gallery
  \/ Traf \/ Clean

SpecArticle == InitArticle /\ [][NextArticle]_vars

\* ------------------------------------------------------------------------
\* The run: fetch_items, build_rss, __main__
\* ------------------------------------------------------------------------
\* a deduplication by link in which the later item of a link wins
RECURSIVE DedupLastWins(_, _, _)
DedupLastWins(its, seen, out) ==
  IF its = << >> THEN out
  ELSE LET it == Head(its) IN
       IF it.link \in seen
       THEN DedupLastWins(Tail(its), seen,
                          [k \in 1..Len(out) |->
                             IF out[k].link = it.link THEN it ELSE out[k]])
       ELSE DedupLastWins(Tail(its), seen \cup {it.link}, Append(out, it))

\* the deduplication by link: seen, unique
RECURSIVE Dedup(_, _, _)
Dedup(its, seen, out) ==
  IF its = << >> THEN out
  ELSE LET it == Head(its) IN
       IF it.link \in seen THEN Dedup(Tail(its), seen, out)
       ELSE Dedup(Tail(its), seen \cup {it.link}, Append(out, it))

\* unique[:MAX_ITEMS]
FirstItems(its, n) == SubSeq(its, 1, IF Len(its) < n THEN Len(its) ELSE n)

\* one <item> block
Rendered(it, build_date) ==
  [title |-> it.title, link |-> it.link, guid |-> it.guid,
   pubDate |-> IF it.pubDate # None THEN it.pubDate[1] ELSE build_date,
   lead_text |-> IF it.lead # << >> THEN << "lead", it.lead >>
                 ELSE << "title", it.title >>,
   image |-> it.image,
   enclosure |-> IF it.image # None THEN << it.image[1], it.mime >> ELSE << >>]

\* a build_rss that puts the later of two neighbouring dates first
build_rssByDate(its, build_date) ==
  LET r == [k \in 1..Len(its) |-> Rendered(its[k], build_date)] IN
  IF Len(r) >= 2 /\ r[1].pubDate.wall < r[2].pubDate.wall
  THEN << r[2], r[1] >> \o SubSeq(r, 3, Len(r))
  ELSE r

\* build_rss: the <item> blocks, in the order of the list it is given
build_rss(its, build_date) ==
  [k \in 1..Len(its) |-> Rendered(its[k], build_date)]

\* Listing pages of the run, as anchors in document order
PipeAnchor(href, within, tnTitle, text, imgs) ==
  [href |-> href, within |-> within, tnTitle |-> tnTitle, text |-> text,
   nextTitle |-> "", alt |-> "", imgs |-> imgs]

Img(name, ext) == Some([name |-> name, ext |-> ext])

AnchorA   == PipeAnchor(<< "news", "a,1" >>, {"tn-img"}, "", "t1", << Img("i1", "jpg") >>)
AnchorA2  == PipeAnchor(<< "news", "a,1" >>, {}, "", "t2", << >>)
AnchorADot == PipeAnchor(<< "news", ".", "a,1" >>, {}, "t3", "", << None >>)
AnchorB   == PipeAnchor(<< "news", "b,2" >>, {"bg-white"}, "tb", "",
                        << None, Img("x", "data"), Img("i2", "png") >>)
AnchorL   == PipeAnchor(<< "news", "wydarzenia-p2" >>, {}, "", "next", << >>)

PIPE_PAGES ==
  { << >>,
    << AnchorL, AnchorA2, AnchorA, AnchorB >>,
    << AnchorB, AnchorA2 >>,
    << AnchorADot, AnchorB, AnchorA2 >> }

\* What the network returns for one article
FailedSub  == [ok |-> FALSE, tags |-> << >>, paras |-> << >>]
FailedGal  == [has |-> TRUE, ok |-> FALSE, tags |-> << >>, paras |-> << >>]
FailedTraf == [ok |-> FALSE, text |-> << >>]
Soup(tags, meta, inpage, paras) ==
  [tags |-> tags, meta |-> meta, inpage |-> inpage, paras |-> paras]
NoInpage == [el |-> FALSE, day |-> None]
EmptySoup == Soup(<< >>, None, NoInpage, << >>)

Article(ok, soup, amp, gal, traf) ==
  [ok |-> ok, soup |-> soup, amps |-> [k \in 1..NumAmp |-> amp],
   gal |-> gal, traf |-> traf]

PIPE_ARTICLES ==
  { Article(FALSE, EmptySoup, FailedSub, FailedGal, FailedTraf),
    Article(TRUE, EmptySoup, FailedSub, FailedGal, FailedTraf),
    Article(TRUE, Soup(<< << Obj(TRUE, Some(DateZ), TGood) >> >>, None, NoInpage, << >>),
            FailedSub, FailedGal, FailedTraf),
    Article(TRUE, Soup(<< >>, Some(DateNaive), NoInpage, << TMid >>),
            FailedSub, FailedGal, [ok |-> TRUE, text |-> TRaw]),
    Article(TRUE, Soup(<< >>, None, [el |-> TRUE, day |-> Some(1)], << >>),
            [ok |-> TRUE, tags |-> << >>, paras |-> << TGood >>],
            [has |-> TRUE, ok |-> TRUE, tags |-> << >>, paras |-> << >>],
            [ok |-> TRUE, text |-> << >>]) }

SubFailed(in) ==
  in.ok /\ (~in.gal.ok \/ ~in.traf.ok \/ \E k \in 1..Len(in.amps) : ~in.amps[k].ok)

\* rfc2822_now() at the time of the build, later than every article's date
BUILD_DATES == { to_rfc2822(100) }

InitRun ==
  /\ ArtIdle /\ LinkIdle
  /\ pc = "listing" /\ pageIdx = 0 /\ items = << >> /\ unique = << >> /\ idx = 0
  /\ result = << >> /\ rss = << >>
  /\ feedFile = [written |-> FALSE, body |-> << >>]
  /\ failed = [pages |-> {}, arts |-> {}, subs |-> {}]
  /\ contrib = << >> /\ processed = << >>

\* a listing page whose fetch raised, with the run given up
ListingFailedAborts ==
  /\ pc = "listing" /\ pageIdx < NumPages
  /\ pc' = "aborted"
  /\ failed' = [failed EXCEPT !.pages = @ \cup {pageIdx + 1}]
  /\ UNCHANGED << pageIdx, items, unique, idx, result, rss, feedFile, contrib,
                  processed, artVars, linkVars >>

\* a listing page whose fetch raised: a warning, and on to the next page
ListingFailed ==
  /\ pc = "listing" /\ pageIdx < NumPages
  /\ pageIdx' = pageIdx + 1
  /\ failed' = [failed EXCEPT !.pages = @ \cup {pageIdx + 1}]
  /\ contrib' = Append(contrib, 0)
  /\ UNCHANGED << pc, items, unique, idx, result, rss, feedFile, processed, artVars, linkVars >>

\* a listing page that was fetched: its items are appended
ListingFetched ==
  /\ pc = "listing" /\ pageIdx < NumPages
  /\ \E doc \in PIPE_PAGES :
       /\ items' = items \o PageItems(doc)
       /\ contrib' = Append(contrib, Len(PageItems(doc)))
       /\ processed' = processed \o ItemsOfClean(AllAnchors(doc))
  /\ pageIdx' = pageIdx + 1
  /\ UNCHANGED << pc, unique, idx, result, rss, feedFile, failed, artVars, linkVars >>

\* after the last page: the deduplication by link
Deduplicate ==
  /\ pc = "listing" /\ pageIdx >= NumPages
  /\ unique' = Dedup(items, {}, << >>)
  /\ pc' = "details"
  /\ UNCHANGED << pageIdx, items, idx, result, rss, feedFile, failed, contrib,
                  processed, artVars, linkVars >>

\* one turn of the detail loop
Detail ==
  /\ pc = "details" /\ idx < Len(unique) /\ idx < DETAIL_LIMIT
  /\ \E in \in PIPE_ARTICLES :
       LET r == fetch_article_details(in, tzOffset) IN
       /\ unique' = [unique EXCEPT
                       ![idx + 1].pubDate = IF r.pub # None THEN r.pub ELSE @,
                       ![idx + 1].lead = IF r.lead # << >> THEN r.lead ELSE @]
       /\ failed' = [failed EXCEPT
                       !.arts = IF in.ok THEN @ ELSE @ \cup {idx + 1},
                       !.subs = IF SubFailed(in) THEN @ \cup {idx + 1} ELSE @]
  /\ idx' = idx + 1
  /\ UNCHANGED << pc, pageIdx, items, result, rss, feedFile, contrib, processed, artVars, linkVars >>

\* fetch_items returns unique[:MAX_ITEMS]
ReturnItems ==
  /\ pc = "details" /\ (idx >= Len(unique) \/ idx >= DETAIL_LIMIT)
  /\ result' = FirstItems(unique, MAX_ITEMS)
  /\ pc' = "build"
  /\ UNCHANGED << pageIdx, items, unique, idx, rss, feedFile, failed, contrib,
                  processed, artVars, linkVars >>

BuildRss ==
  /\ pc = "build"
  /\ \E build_date \in BUILD_DATES : rss' = build_rss(result, build_date)
  /\ pc' = "write"
  /\ UNCHANGED << pageIdx, items, unique, idx, result, feedFile, failed, contrib,
                  processed, artVars, linkVars >>

\* a write of what there is so far, from inside the detail loop
WriteFeedEarly ==
  /\ pc \in {"details", "write"}
  /\ feedFile' = [written |-> TRUE,
                  body |-> IF pc = "write" THEN rss
                           ELSE build_rss(unique, to_rfc2822(100))]
  /\ pc' = IF pc = "write" THEN "done" ELSE pc
  /\ UNCHANGED << pageIdx, items, unique, idx, result, rss, failed, contrib,
                  processed, artVars, linkVars >>

\* open("feed.xml", "w") and f.write(rss)
WriteFeed ==
  /\ pc = "write"
  /\ feedFile' = [written |-> TRUE, body |-> rss]
  /\ pc' = "done"
  /\ UNCHANGED << pageIdx, items, unique, idx, result, rss, failed, contrib,
                  processed, artVars, linkVars >>

Next ==
  \/ ListingFailed \/ ListingFetched \/ Deduplicate \/ Detail \/ ReturnItems
  \/ BuildRss \/ WriteFeed

Spec == InitRun /\ [][Next]_vars

\* ------------------------------------------------------------------------
\* Claims about the run
\* ------------------------------------------------------------------------
\* the place in items of the first item with this link
FirstIndex(its, link) ==
  CHOOSE i \in 1..Len(its) :
    its[i].link = link /\ \A j \in 1..(i - 1) : its[j].link # link

\* what the listing page gave for an item
Core(it) ==
  [title |-> it.title, link |-> it.link, guid |-> it.guid, image |-> it.image,
   mime |-> it.mime]

Returned == pc \in {"build", "write", "done"}

\* C1: the list fetch_items returns holds each link once; the item kept for
\* a link has the title, image and guid of the first anchor processed with
\* that link; and the kept items stand in the order in which their links
\* were first processed.
C1_FirstSeenWins ==
  Returned =>
    /\ NoRepeat(LinksOf(result))
    /\ \A k \in 1..Len(result) :
         Core(result[k]) = Core(processed[FirstIndex(processed, result[k].link)])
    /\ \A k, m \in 1..Len(result) :
         k < m => FirstIndex(processed, result[k].link)
                    < FirstIndex(processed, result[m].link)

\* C1 witness: the run returned two items, and a link was processed twice
\* with different titles, on one page and on two.
C1_Witness ==
  /\ pc = "done" /\ Len(result) >= 2
  /\ Len(processed) > Len(items)
  /\ \E i, j \in 1..Len(items) :
       i < j /\ items[i].link = items[j].link /\ items[i].title # items[j].title

C7_NoFailureIsFatal ==
  /\ pc # "done" => ENABLED Next
  /\ \A p \in failed.pages : contrib[p] = 0
  /\ \A k \in failed.arts : unique[k].pubDate = None /\ unique[k].lead = << >>
  /\ \A k \in (idx + 1)..Len(unique) :
       unique[k].pubDate = None /\ unique[k].lead = << >>
  /\ pc \in {"details", "build", "write", "done"} =>
       /\ Len(unique) = Cardinality({ items[i].link : i \in 1..Len(items) })
       /\ \A k \in 1..Len(unique) :
            Core(unique[k]) = Core(items[FirstIndex(items, unique[k].link)])

\* C7 witness: a listing page, an article page and a sub-fetch failed, and
\* the feed was written with two items.
C7_Witness ==
  /\ pc = "done" /\ feedFile.written /\ Len(feedFile.body) >= 2
  /\ failed.pages # {} /\ failed.arts # {} /\ failed.subs # {}

\* C9: feed.xml is written only when the run is over: all listing pages and
\* all articles of the detail loop are done, and the file holds every
\* returned item.
C9_WriteAfterAll ==
  feedFile.written =>
    /\ pc = "done"
    /\ pageIdx >= NumPages
    /\ (idx >= Len(unique) \/ idx >= DETAIL_LIMIT)
    /\ Len(feedFile.body) = Len(FirstItems(unique, MAX_ITEMS))

\* C9 witness: the file was written, with two items.
C9_Witness == feedFile.written /\ Len(feedFile.body) >= 2

\* ------------------------------------------------------------------------
\* The link extraction of one listing page
\* ------------------------------------------------------------------------
MaxAnchors == 2

Anchor(href, within) ==
  [href |-> href, within |-> within, tnTitle |-> "", text |-> "t",
   nextTitle |-> "", alt |-> "", imgs |-> << >>]

HREFS ==
  { << "news", "a,1" >>, << "news", "b,2" >>, << "news", "" >>,
    << "news", "wydarzenia-p2" >>, << "news", ",3" >>,
    << "news", ".", "a,1" >>, << "news", "..", "galeria", "a,1" >>,
    << "galeria", "a,1" >>, << "news", "wydarzenia-p2", "b,2" >> }

LINK_ANCHORS == { Anchor(h, w) : h \in HREFS, w \in { {}, {"tn-img"} } }

InitLinks ==
  /\ PipeIdle /\ ArtIdle
  /\ lpc = "parse" /\ page \in SeqsUpTo(LINK_ANCHORS, MaxAnchors)
  /\ links = << >> /\ links2 = << >>

\* the body of the listing loop for the fetched page
ExtractLinks ==
  /\ lpc = "parse"
  /\ links' = LinksOf(PageItems(page))
  /\ lpc' = "extracted"
  /\ UNCHANGED << page, links2, pipeVars, artVars >>

\* the same page processed once more
ExtractAgain ==
  /\ lpc = "extracted"
  /\ links2' = LinksOf(PageItems(page))
  /\ lpc' = "again"
  /\ UNCHANGED << page, links, pipeVars, artVars >>

NextLinks == ExtractLinks \/ ExtractAgain

SpecLinks == InitLinks /\ [][NextLinks]_vars

\* a link under the article path: /news/<slug>,<id>
ArticleUrl(link) ==
  /\ link.site = SITE
  /\ Len(link.path) >= 2 /\ link.path[1] = "news"
  /\ link.path[Len(link.path)] \in ID_SEGMENTS
  /\ ~(Len(link.path) = 2 /\ link.path[2] = BARE_ID)

ListingUrl(link) ==
  link.path \in { << "news", "" >>, << "news", "wydarzenia-p2" >> }

\* C8 (as claimed): every link a listing page gives is an absolute URL under
\* /news/<slug>,<id>, is no listing URL, appears once, and a second pass over
\* the same page gives the same links in the same order.
C8_LinksAreArticles ==
  /\ lpc \in {"extracted", "again"} =>
       /\ \A i \in 1..Len(links) : ArticleUrl(links[i]) /\ ~ListingUrl(links[i])
       /\ NoRepeat(links)
  /\ lpc = "again" => links2 = links

\* ------------------------------------------------------------------------
\* Claims about fetch_article_details
\* ------------------------------------------------------------------------
\* C3: in every step of the cascade a publication date that is set stays as
\* it is, and in every step of a strategy (all but the final cleaning) a lead
\* of at least LEAD_MIN_GOOD characters stays as it is: a step writes the
\* date only while it is empty, the lead only while it is empty or short.
C3_NoOverwrite ==
  [][ /\ (pub_rfc # None => pub_rfc' = pub_rfc)
      /\ (apc # "clean" /\ GoodLead(lead) => lead' = lead) ]_vars

\* C3 witness: JSON-LD set the date, the page's meta tag held another one,
\* the meta step has run and the date is still the one of JSON-LD.
C3_Witness ==
  /\ apc = "paras"
  /\ pub_rfc # None /\ hist.jDate = pub_rfc
  /\ hist.mDate # None /\ hist.mDate # pub_rfc

\* the date of the first of JSON-LD, AMP, meta tag and in-page element that
\* carried one
FirstDate ==
  IF hist.jDate # None THEN hist.jDate
  ELSE IF hist.aDate # None THEN hist.aDate
  ELSE IF hist.mDate # None THEN hist.mDate
  ELSE hist.iDate

\* C4 (as claimed): on return, the date is the one of the first of JSON-LD,
\* AMP, meta tag and in-page element that carried one, so that a page with a
\* structured-data date and another meta-tag date has the structured-data
\* date; and with no date anywhere there is none, which build_rss renders as
\* the build timestamp.
C4_DatePriority ==
  apc = "done" =>
    /\ FirstDate # None => pub_rfc = FirstDate
    /\ (FirstDate = None /\ hist.gDate = None) => pub_rfc = None

\* C5 (as claimed): on return, a lead that is present is at most
\* LEAD_MAX_CHARS long and ends in the ellipsis exactly when it was cut.
C5_LeadWithinBudget ==
  (apc = "done" /\ lead # << >>)
  => /\ TLen(lead) <= LEAD_MAX_CHARS
     /\ (EndsWithEllipsis(lead) <=> hist.cut)

\* the clock reading in UTC of the instant a source value denotes
UtcWall(dp) == IF dp.tz = "off" THEN dp.wall - dp.off ELSE dp.wall

\* C6 (as claimed), on a machine whose local zone is UTC: a pubDate parsed
\* from a source value that carries a Z or a numeric offset is the clock
\* reading of that instant in UTC, so that two values of one instant give
\* one pubDate.
C6_DatesInUtc ==
  (tzOffset = 0 /\ pub_rfc # None /\ hist.src # None
     /\ hist.src[1].tz \in {"Z", "off"})
  => pub_rfc = Some(to_rfc2822(UtcWall(hist.src[1])))

\* C10 (as claimed): on return of a call whose page was fetched, if some
\* strategy yielded a valid lead below LEAD_MIN_GOOD and none yielded one
\* of at least LEAD_MIN_GOOD, the lead is present; and if some strategy
\* yielded one of at least LEAD_MIN_GOOD, the lead has that length.
C10_ShortLeadKept ==
  apc = "done" =>
    /\ (hist.short /\ ~hist.good => lead # << >>)
    /\ (hist.good => GoodLead(lead))

====
